---- MODULE Spec2Model ----
(***************************************************************************)
(* A model of the AIWisper backend scripts:                                *)
(*   backend/test_gigaam_official.py  (GigaAM v3 CTC, character vocabulary) *)
(*   backend/test_gigaam_e2e.py       (GigaAM v3 E2E, loaded vocabulary)    *)
(*   backend/test_mel_compare.py      (mel reference dump)                  *)
(*   backend/faster_whisper_cli.py    (transcription CLI)                   *)
(*                                                                         *)
(* Text is a sequence of characters; a character is a one-character        *)
(* string.  Non-ASCII characters of the source are written as ASCII        *)
(* labels: the Cyrillic letters of VOCAB are transliterated, and the       *)
(* word-boundary character U+2581 is the label WordBoundary.               *)
(* Python indices are 0-based, TLA+ sequences 1-based: At(s, i).           *)
(***************************************************************************)
EXTENDS Integers, Sequences, FiniteSets, TLC

VARIABLES
    \* ---- CTC decoders (ctc_decode, ctc_decode_e2e)
    decoder,        \* which function runs: "ctc_decode" | "ctc_decode_e2e"
    vocab,          \* the vocabulary the function indexes (VOCAB or the argument)
    blank_id,       \* BLANK_ID, or len(vocab) - 1
    logits_width,   \* last dimension of the logits tensor
    tokens,         \* np.argmax(logits[0], axis=-1): one class per frame
    idx,            \* frames consumed by the for loop
    result,         \* the list `result`
    prev_token,     \* the cursor `prev_token`
    text,           \* the returned string
    dpc,            \* "loop" | "returned"
    \* ---- faster_whisper_cli.py
    cpc,            \* "start" | "loaded" | "iterating" | "printed" | "failed"
    candidates,     \* the segments the library decodes for the file, with their scores
    segments,       \* what is left of the lazy `segments` the call returned
    text_parts,     \* the list `text_parts` as built so far
    stdout,         \* what was written to standard output, one entry per write
    stderr,         \* what was written to standard error, one entry per write
    exit_status,    \* the exit status once the process has ended
    \* ---- load_vocab
    vpc,            \* "reading" | "returned"
    lines,          \* the lines of the vocabulary file, without their newline
    lineno,         \* lines consumed by `for line in f`
    vocab_list,     \* the list `vocab` of load_vocab
    \* ---- the GigaAM scripts' main() and test_mel_compare.py's main()
    script,         \* "e2e" | "official" | "mel_compare"
    ppc,            \* position in main()
    ff_rc,          \* the return code ffmpeg ends with
    ff_bytes,       \* the number of bytes ffmpeg writes to its stdout
    loader,         \* which loader returned `audio`: "none" | "ffmpeg" | "torchaudio"
    audio,          \* len(audio)
    mel,            \* <<>> before it is computed, else <<the tensor>>
    fed,            \* <<>>, else <<the inputs sess.run was given>>
    raised          \* the call whose exception ended main(), "none" if none

decVars == <<decoder, vocab, blank_id, logits_width, tokens, idx, result,
             prev_token, text, dpc>>

cliVars == <<cpc, candidates, segments, text_parts, stdout, stderr, exit_status>>

vocVars == <<vpc, lines, lineno, vocab_list>>

pipeVars == <<script, ppc, ff_rc, ff_bytes, loader, audio, mel, fed, raised>>

vars == <<decVars, cliVars, vocVars, pipeVars>>

-----------------------------------------------------------------------------
(* Strings *)

\* str.strip() / str.isspace(): the whitespace characters of the model's alphabet.
Whitespace == {" ", "\t", "\n"}

WordBoundary == "U+2581"

RECURSIVE LStrip(_)
LStrip(s) ==
    IF s # <<>> /\ Head(s) \in Whitespace THEN LStrip(Tail(s)) ELSE s

RECURSIVE RStrip(_)
RStrip(s) ==
    IF s # <<>> /\ s[Len(s)] \in Whitespace
    THEN RStrip(SubSeq(s, 1, Len(s) - 1))
    ELSE s

\* s.strip()
Strip(s) == RStrip(LStrip(s))

\* sep.join(parts)
RECURSIVE Join(_, _)
Join(sep, parts) ==
    IF parts = <<>> THEN <<>>
    ELSE IF Len(parts) = 1 THEN parts[1]
    ELSE parts[1] \o sep \o Join(sep, Tail(parts))

\* s.replace(old, new) for a one-character old
Replace(s, old, new) == [i \in 1..Len(s) |-> IF s[i] = old THEN new ELSE s[i]]

\* 0-based indexing
At(s, i) == s[i + 1]

\* All sequences over S of length at most n
SeqUpTo(S, n) == UNION {[1..k -> S] : k \in 0..n}

-----------------------------------------------------------------------------
(* CTC decoders *)

MaxFrames == 6

\* VOCAB of test_gigaam_official.py: the space and the 32 Cyrillic letters
\* (transliterated labels, one character each).
VOCAB ==
    << <<" ">>,  <<"a">>,  <<"b">>,  <<"v">>,  <<"g">>,  <<"d">>,  <<"e">>,
       <<"zh">>, <<"z">>,  <<"i">>,  <<"j">>,  <<"k">>,  <<"l">>,  <<"m">>,
       <<"n">>,  <<"o">>,  <<"p">>,  <<"r">>,  <<"s">>,  <<"t">>,  <<"u">>,
       <<"f">>,  <<"h">>,  <<"c">>,  <<"ch">>, <<"sh">>, <<"shch">>,
       <<"hard">>, <<"y">>, <<"soft">>, <<"eh">>, <<"yu">>, <<"ya">> >>

BLANK_ID == 33

\* The token of the blank line in a loaded vocabulary file.
BlkToken == <<"<", "b", "l", "k", ">">>

\* Vocabularies handed to ctc_decode_e2e: a character one and a sub-word one
\* (blank last, as the function assumes).
E2EVocabs ==
    { << <<" ">>, <<"a">>, <<"b">>, BlkToken >>,
      << <<WordBoundary>>, <<"a">>, <<WordBoundary, "b">>, BlkToken >> }

\* The classes drawn for a frame: arg-max over a last dimension of `width`
\* gives 0 .. width-1; of these the first three and those around the blank.
Classes(width, blank) ==
    {c \in 0..(width - 1) : c <= 2 \/ c >= blank - 1}

\* The last dimensions tried: the matching one (blank + 1) and its neighbours.
Widths(blank) == {blank, blank + 1, blank + 2}

\* A decoder that removes blanks but does not collapse repeats
EmitsNoCollapse(token, prev, blank) == token # blank

\* line 112 / line 90: if token != BLANK_ID and token != prev_token
Emits(token, prev, blank) == token # blank /\ token # prev

\* line 113 / line 91: if token < len(VOCAB)
InVocab(token, v) == token < Len(v)

\* lines 117 / 96-100: what the function returns for the list `result`
Render(dec, res) ==
    IF dec = "ctc_decode"
    THEN Join(<<>>, res)
    ELSE Strip(Replace(Join(<<>>, res), WordBoundary, " "))

DecInit ==
    /\ decoder \in {"ctc_decode", "ctc_decode_e2e"}
    /\ vocab \in (IF decoder = "ctc_decode" THEN {VOCAB} ELSE E2EVocabs)
    /\ blank_id = (IF decoder = "ctc_decode" THEN BLANK_ID ELSE Len(vocab) - 1)
    /\ logits_width \in Widths(blank_id)
    /\ tokens \in SeqUpTo(Classes(logits_width, blank_id), MaxFrames)
    /\ idx = 0
    /\ result = <<>>
    /\ prev_token = blank_id
    /\ text = <<>>
    /\ dpc = "loop"

\* One iteration of `for token in tokens`
LoopStep ==
    /\ dpc = "loop"
    /\ idx < Len(tokens)
    /\ LET token == tokens[idx + 1] IN
        /\ result' = IF Emits(token, prev_token, blank_id) /\ InVocab(token, vocab)
                     THEN Append(result, At(vocab, token))
                     ELSE result
        /\ prev_token' = token
    /\ idx' = idx + 1
    /\ UNCHANGED <<decoder, vocab, blank_id, logits_width, tokens, text, dpc>>
    /\ UNCHANGED <<cliVars, vocVars, pipeVars>>

\* The loop is exhausted: join (and, in ctc_decode_e2e, replace and strip), return
Return ==
    /\ dpc = "loop"
    /\ idx = Len(tokens)
    /\ text' = Render(decoder, result)
    /\ dpc' = "returned"
    /\ UNCHANGED <<decoder, vocab, blank_id, logits_width, tokens, idx, result,
                   prev_token>>
    /\ UNCHANGED <<cliVars, vocVars, pipeVars>>

DecNext == LoopStep \/ Return

\* No decoder call is in progress
DecIdle ==
    /\ dpc = "idle"
    /\ decoder = "ctc_decode"
    /\ vocab = VOCAB
    /\ blank_id = BLANK_ID
    /\ logits_width = BLANK_ID + 1
    /\ tokens = <<>>
    /\ idx = 0
    /\ result = <<>>
    /\ prev_token = BLANK_ID
    /\ text = <<>>

-----------------------------------------------------------------------------
(* faster_whisper_cli.py *)

MaxSegs == 2

\* Scores are in tenths: 5 is 0.5, -10 is -1.0.
\* line 63: no_speech_threshold=0.5
no_speech_threshold == 5

\* The call passes no log_prob_threshold: the library's default, -1.0, applies.
log_prob_threshold == -10

\* Segment texts the library may produce
SegTexts ==
    { <<>>, <<" ">>, <<"a">>, <<" ", "a">>, <<"b", " ">>,
      <<"\t", "a", " ", "b", "\n">> }

\* (no-speech probability, average log-probability) of a decoded segment
SegScores ==
    { [no_speech_prob |-> 1, avg_logprob |-> -3],
      [no_speech_prob |-> 9, avg_logprob |-> -15],
      [no_speech_prob |-> 9, avg_logprob |-> -3] }

CandidateSegments ==
    { [text |-> t, no_speech_prob |-> sc.no_speech_prob, avg_logprob |-> sc.avg_logprob] :
        t \in SegTexts, sc \in SegScores }

\* What no_speech_threshold does inside model.transcribe: a decoded segment is
\* skipped when its no-speech probability is above the threshold, unless its
\* average log-probability is above log_prob_threshold.
LibrarySkips(seg) ==
    /\ seg.no_speech_prob > no_speech_threshold
    /\ ~(seg.avg_logprob > log_prob_threshold)

\* The segments model.transcribe yields for the decoded candidates
Yielded(cands) == SelectSeq(cands, LAMBDA seg : ~LibrarySkips(seg))

\* A transcript that keeps the empty parts
TranscriptKeepsEmpty(parts) == Join(<<" ">>, parts)

\* line 75: " ".join(tp for tp in text_parts if tp)
Transcript(parts) == Join(<<" ">>, SelectSeq(parts, LAMBDA tp : tp # <<>>))

CliInit ==
    /\ cpc = "start"
    /\ candidates \in SeqUpTo(CandidateSegments, MaxSegs)
    /\ segments = <<>>
    /\ text_parts = <<>>
    /\ stdout = <<>>
    /\ stderr = <<>>
    /\ exit_status = "running"

\* lines 81-83: except Exception as e: sys.stderr.write(...); sys.exit(1)
ExceptionHandler ==
    /\ stderr' = Append(stderr, "error")
    /\ exit_status' = 1
    /\ cpc' = "failed"
    /\ UNCHANGED <<candidates, segments, text_parts, stdout>>
    /\ UNCHANGED <<decVars, vocVars, pipeVars>>

\* lines 34-38: WhisperModel(...) returns
LoadModel ==
    /\ cpc = "start"
    /\ cpc' = "loaded"
    /\ UNCHANGED <<candidates, segments, text_parts, stdout, stderr, exit_status>>
    /\ UNCHANGED <<decVars, vocVars, pipeVars>>

\* lines 34-38: WhisperModel(...) raises
LoadModelRaises ==
    /\ cpc = "start"
    /\ ExceptionHandler

\* lines 49-72: model.transcribe(...) returns the lazy segment sequence
Transcribe ==
    /\ cpc = "loaded"
    /\ segments' = Yielded(candidates)
    /\ cpc' = "iterating"
    /\ UNCHANGED <<candidates, text_parts, stdout, stderr, exit_status>>
    /\ UNCHANGED <<decVars, vocVars, pipeVars>>

\* lines 49-72: model.transcribe(...) raises
TranscribeRaises ==
    /\ cpc = "loaded"
    /\ ExceptionHandler

\* A comprehension that prints each part as it is pulled
PullSegmentPrinting ==
    /\ cpc = "iterating"
    /\ segments # <<>>
    /\ text_parts' = Append(text_parts, Strip(Head(segments).text))
    /\ stdout' = Append(stdout, Strip(Head(segments).text))
    /\ segments' = Tail(segments)
    /\ UNCHANGED <<cpc, candidates, stderr, exit_status>>
    /\ UNCHANGED <<decVars, vocVars, pipeVars>>

\* line 74: the comprehension pulls the next segment and keeps seg.text.strip()
PullSegment ==
    /\ cpc = "iterating"
    /\ segments # <<>>
    /\ text_parts' = Append(text_parts, Strip(Head(segments).text))
    /\ segments' = Tail(segments)
    /\ UNCHANGED <<cpc, candidates, stdout, stderr, exit_status>>
    /\ UNCHANGED <<decVars, vocVars, pipeVars>>

\* line 74: the lazy sequence raises while the next segment is pulled
PullRaises ==
    /\ cpc = "iterating"
    /\ ExceptionHandler

\* line 75: the sequence is exhausted; print the transcript; main() returns
PrintTranscript ==
    /\ cpc = "iterating"
    /\ segments = <<>>
    /\ stdout' = Append(stdout, Transcript(text_parts))
    /\ exit_status' = 0
    /\ cpc' = "printed"
    /\ UNCHANGED <<candidates, segments, text_parts, stderr>>
    /\ UNCHANGED <<decVars, vocVars, pipeVars>>

CliNext ==
    \/ LoadModel
    \/ LoadModelRaises
    \/ Transcribe
    \/ TranscribeRaises
    \/ PullSegment
    \/ PullRaises
    \/ PrintTranscript

\* The CLI is not running
CliIdle ==
    /\ cpc = "idle"
    /\ candidates = <<>>
    /\ segments = <<>>
    /\ text_parts = <<>>
    /\ stdout = <<>>
    /\ stderr = <<>>
    /\ exit_status = "running"

-----------------------------------------------------------------------------
(* load_vocab (test_gigaam_e2e.py) *)

MaxLines == 2

MaxLineLen == 3

\* The characters of a vocabulary line: two separators, a letter, a digit
LineChars == {" ", "\t", "a", "1"}

\* s.split(sep) for a one-character sep: every occurrence separates, so the
\* result always has at least one field
RECURSIVE Split(_, _)
Split(s, sep) ==
    IF \E i \in 1..Len(s) : s[i] = sep
    THEN LET i == CHOOSE k \in 1..Len(s) :
                      s[k] = sep /\ \A j \in 1..(k - 1) : s[j] # sep
         IN <<SubSeq(s, 1, i - 1)>> \o Split(SubSeq(s, i + 1, Len(s)), sep)
    ELSE <<s>>

\* lines 24-32: the tokens one line adds to the list (`line` ends with its newline)
TokensOfLine(line) ==
    LET parts == Split(Strip(line), " ") IN
    IF parts # <<>>
    THEN <<IF Head(line) = " " THEN <<" ">> ELSE parts[1]>>
    ELSE <<>>

VocInit ==
    /\ vpc = "reading"
    /\ lines \in SeqUpTo(SeqUpTo(LineChars, MaxLineLen), MaxLines)
    /\ lineno = 0
    /\ vocab_list = <<>>

\* lines 23-32: one iteration of `for line in f`
ReadLine ==
    /\ vpc = "reading"
    /\ lineno < Len(lines)
    /\ vocab_list' = vocab_list \o TokensOfLine(lines[lineno + 1] \o <<"\n">>)
    /\ lineno' = lineno + 1
    /\ UNCHANGED <<vpc, lines>>
    /\ UNCHANGED <<decVars, cliVars, pipeVars>>

\* line 33: return vocab
ReturnVocab ==
    /\ vpc = "reading"
    /\ lineno = Len(lines)
    /\ vpc' = "returned"
    /\ UNCHANGED <<lines, lineno, vocab_list>>
    /\ UNCHANGED <<decVars, cliVars, pipeVars>>

VocNext == ReadLine \/ ReturnVocab

\* load_vocab is not running
VocIdle ==
    /\ vpc = "idle"
    /\ lines = <<>>
    /\ lineno = 0
    /\ vocab_list = <<>>

-----------------------------------------------------------------------------
(* main() of test_gigaam_e2e.py, test_gigaam_official.py, test_mel_compare.py *)

MaxHops == 2

SAMPLE_RATE == 16000

N_MELS == 64

HOP_LENGTH == 160

WIN_LENGTH == 320

N_FFT == 320

\* line 145 / line 165: max_samples = 25 * SAMPLE_RATE
max_samples == 25 * SAMPLE_RATE

\* Audio lengths tried, in samples: empty, around the first frames, around and
\* beyond the 25 s limit
LenProbes ==
    {0, 1}
    \cup {WIN_LENGTH + k * HOP_LENGTH + d : k \in 0..MaxHops, d \in {-1, 0, 1}}
    \cup {max_samples + d : d \in {-1, 0, 1}}
    \cup {max_samples + k * HOP_LENGTH : k \in 1..MaxHops}
    \cup {2 * max_samples}

\* Byte counts ffmpeg may write: whole 16-bit samples, and a torn last sample
ByteCounts ==
    {2 * n : n \in LenProbes} \cup {2 * n + 1 : n \in {0, WIN_LENGTH}}

\* np.frombuffer(result.stdout, dtype=np.int16) raises ValueError when the
\* buffer size is no multiple of the element size
FrombufferFails(nbytes) == nbytes % 2 # 0

\* torch.stft with center=False rejects an input shorter than n_fft
StftFails(n) == n < N_FFT

\* One frame per hop once a whole window fits (center=False, no padding)
FrameCount(n) == (n - N_FFT) \div HOP_LENGTH + 1

\* compute_mel_spectrogram / compute_mel_torchaudio on n samples: the shape of
\* the tensor, and `from`, the number of leading samples it was computed from
MelOf(scr, n) ==
    [shape |-> IF scr = "mel_compare"
               THEN <<N_MELS, FrameCount(n)>>
               ELSE <<1, N_MELS, FrameCount(n)>>,
     from  |-> n]

PipeInit ==
    /\ script \in {"e2e", "official", "mel_compare"}
    /\ ppc = "start"
    /\ ff_rc \in {0, 1}
    /\ ff_bytes \in ByteCounts
    /\ loader = "none"
    /\ audio = 0
    /\ mel = <<>>
    /\ fed = <<>>
    /\ raised = "none"

\* test_mel_compare.py line 93: load_audio_torchaudio returns
TorchaudioLoads ==
    /\ script = "mel_compare"
    /\ ppc = "start"
    /\ \E n \in LenProbes : audio' = n
    /\ loader' = "torchaudio"
    /\ ppc' = "loaded"
    /\ UNCHANGED <<script, ff_rc, ff_bytes, mel, fed, raised>>
    /\ UNCHANGED <<decVars, cliVars, vocVars>>

\* test_mel_compare.py lines 95-96: load_audio_torchaudio raises; fall back to ffmpeg
TorchaudioRaises ==
    /\ script = "mel_compare"
    /\ ppc = "start"
    /\ ppc' = "fallback"
    /\ UNCHANGED <<script, ff_rc, ff_bytes, loader, audio, mel, fed, raised>>
    /\ UNCHANGED <<decVars, cliVars, vocVars>>

\* load_audio_ffmpeg: run ffmpeg, convert whatever it wrote, return it.  The
\* return code is not looked at (test_mel_compare.py prints stderr and goes on).
LoadAudioFfmpeg ==
    /\ \/ script \in {"e2e", "official"} /\ ppc = "start"
       \/ script = "mel_compare" /\ ppc = "fallback"
    /\ IF FrombufferFails(ff_bytes)
       THEN /\ raised' = "frombuffer"
            /\ ppc' = "error"
            /\ UNCHANGED <<loader, audio>>
       ELSE /\ audio' = ff_bytes \div 2
            /\ loader' = "ffmpeg"
            /\ ppc' = "loaded"
            /\ UNCHANGED raised
    /\ UNCHANGED <<script, ff_rc, ff_bytes, mel, fed>>
    /\ UNCHANGED <<decVars, cliVars, vocVars>>

\* test_gigaam_official.py lines 136-138: audio.min() of an empty array raises
AudioStats ==
    /\ script = "official"
    /\ ppc = "loaded"
    /\ IF audio = 0
       THEN raised' = "audio.min" /\ ppc' = "error"
       ELSE raised' = raised /\ ppc' = "stats"
    /\ UNCHANGED <<script, ff_rc, ff_bytes, loader, audio, mel, fed>>
    /\ UNCHANGED <<decVars, cliVars, vocVars>>

\* mel = compute_mel_spectrogram(audio)
ComputeMel ==
    /\ \/ script = "official" /\ ppc = "stats"
       \/ script # "official" /\ ppc = "loaded"
    /\ IF StftFails(audio)
       THEN /\ raised' = "stft"
            /\ ppc' = "error"
            /\ UNCHANGED mel
       ELSE /\ mel' = <<MelOf(script, audio)>>
            /\ ppc' = "mel"
            /\ UNCHANGED raised
    /\ UNCHANGED <<script, ff_rc, ff_bytes, loader, audio, fed>>
    /\ UNCHANGED <<decVars, cliVars, vocVars>>

\* test_mel_compare.py lines 102-123: statistics, np.save, done
MelCompareDone ==
    /\ script = "mel_compare"
    /\ ppc = "mel"
    /\ ppc' = "done"
    /\ UNCHANGED <<script, ff_rc, ff_bytes, loader, audio, mel, fed, raised>>
    /\ UNCHANGED <<decVars, cliVars, vocVars>>

\* A truncation that keeps the tensor computed from the whole audio
TruncateKeepsMel ==
    /\ script \in {"e2e", "official"}
    /\ ppc = "mel"
    /\ audio' = IF audio > max_samples THEN max_samples ELSE audio
    /\ ppc' = "ready"
    /\ UNCHANGED <<script, ff_rc, ff_bytes, loader, mel, fed, raised>>
    /\ UNCHANGED <<decVars, cliVars, vocVars>>

\* if len(audio) > max_samples: audio = audio[:max_samples]; mel = compute_...(audio)
Truncate ==
    /\ script \in {"e2e", "official"}
    /\ ppc = "mel"
    /\ IF audio > max_samples
       THEN /\ audio' = max_samples
            /\ mel' = <<MelOf(script, max_samples)>>
       ELSE UNCHANGED <<audio, mel>>
    /\ ppc' = "ready"
    /\ UNCHANGED <<script, ff_rc, ff_bytes, loader, fed, raised>>
    /\ UNCHANGED <<decVars, cliVars, vocVars>>

\* feature_lengths = [mel.shape[2]]; sess.run(None, {features, feature_lengths})
Infer ==
    /\ script \in {"e2e", "official"}
    /\ ppc = "ready"
    /\ fed' = <<[features |-> mel[1], feature_lengths |-> mel[1].shape[3]]>>
    /\ ppc' = "inferred"
    /\ UNCHANGED <<script, ff_rc, ff_bytes, loader, audio, mel, raised>>
    /\ UNCHANGED <<decVars, cliVars, vocVars>>

PipeNext ==
    \/ TorchaudioLoads
    \/ TorchaudioRaises
    \/ LoadAudioFfmpeg
    \/ AudioStats
    \/ ComputeMel
    \/ MelCompareDone
    \/ Truncate
    \/ Infer

\* No script is running
PipeIdle ==
    /\ script = "e2e"
    /\ ppc = "idle"
    /\ ff_rc = 0
    /\ ff_bytes = 0
    /\ loader = "none"
    /\ audio = 0
    /\ mel = <<>>
    /\ fed = <<>>
    /\ raised = "none"

-----------------------------------------------------------------------------
(* Specifications: one per program *)

\* Each program starts alone: the others stay idle
InitDecoder == DecInit /\ CliIdle /\ VocIdle /\ PipeIdle

InitCli == CliInit /\ DecIdle /\ VocIdle /\ PipeIdle

InitVocab == VocInit /\ DecIdle /\ CliIdle /\ PipeIdle

InitPipeline == PipeInit /\ DecIdle /\ CliIdle /\ VocIdle

SpecDecoder == InitDecoder /\ [][DecNext]_vars

SpecCli == InitCli /\ [][CliNext]_vars

SpecVocab == InitVocab /\ [][VocNext]_vars

SpecPipeline == InitPipeline /\ [][PipeNext]_vars

-----------------------------------------------------------------------------
(* Properties of the CTC decoders, checked under SpecDecoder *)

\* Every frame's class is a vocabulary index or the blank index
InRangeClasses ==
    \A j \in 1..Len(tokens) : tokens[j] = blank_id \/ tokens[j] < Len(vocab)

\* The class before frame j; the class before the first frame is the blank
ClassBefore(j) == IF j = 1 THEN blank_id ELSE tokens[j - 1]

\* The tokens of the frames 1..n that differ from the blank and from the
\* class before them
RECURSIVE EmittedUpTo(_)
EmittedUpTo(n) ==
    IF n = 0 THEN <<>>
    ELSE IF tokens[n] # blank_id /\ tokens[n] # ClassBefore(n)
         THEN Append(EmittedUpTo(n - 1), At(vocab, tokens[n]))
         ELSE EmittedUpTo(n - 1)

\* Runs of equal classes merged into one
RECURSIVE MergeRuns(_)
MergeRuns(s) ==
    IF Len(s) <= 1 THEN s
    ELSE IF s[Len(s)] = s[Len(s) - 1]
         THEN MergeRuns(SubSeq(s, 1, Len(s) - 1))
         ELSE Append(MergeRuns(SubSeq(s, 1, Len(s) - 1)), s[Len(s)])

DeleteBlanks(s) == SelectSeq(s, LAMBDA c : c # blank_id)

TokensOf(s) == [j \in 1..Len(s) |-> At(vocab, s[j])]

NoEdgeWhitespace(s) ==
    s = <<>> \/ (s[1] \notin Whitespace /\ s[Len(s)] \notin Whitespace)

\* C1: with every class in range, after any number of frames the emitted
\* tokens are those of the frames whose class is not the blank and differs
\* from the class of the frame before (blank before the first frame);
\* equally, merge runs of equal classes, then delete blanks; and the cursor
\* is the class of the last frame, blank frames included.
C1_CollapseRule ==
    (dpc \in {"loop", "returned"} /\ InRangeClasses) =>
        /\ result = EmittedUpTo(idx)
        /\ result = TokensOf(DeleteBlanks(MergeRuns(SubSeq(tokens, 1, idx))))
        /\ prev_token = (IF idx = 0 THEN blank_id ELSE tokens[idx])

\* C1 witness: a, a, blank, a has been decoded and has emitted a twice
C1_Witness ==
    /\ dpc = "returned"
    /\ InRangeClasses
    /\ Len(tokens) = 4
    /\ tokens[1] # blank_id
    /\ tokens[2] = tokens[1]
    /\ tokens[3] = blank_id
    /\ tokens[4] = tokens[1]
    /\ result = <<At(vocab, tokens[1]), At(vocab, tokens[1])>>

\* C2: the text a decoder returns for logits of the matching width neither
\* begins nor ends with a whitespace character.
C2_ReturnedTextTrimmed ==
    (dpc = "returned" /\ logits_width = blank_id + 1) => NoEdgeWhitespace(text)

\* C3: a decoder returns no text when the last dimension of the logits is not
\* the vocabulary size plus one (blank_id + 1), and never returns text from
\* which a class outside the vocabulary was silently left out.
C3_FailsFastOnShapeMismatch ==
    dpc = "returned" =>
        /\ logits_width = blank_id + 1
        /\ ~\E j \in 1..Len(tokens) :
                tokens[j] # blank_id /\ tokens[j] >= Len(vocab)

-----------------------------------------------------------------------------
(* Properties of faster_whisper_cli.py, checked under SpecCli *)

\* The transcript built from the left: a part that trims to empty adds
\* nothing, the first remaining part adds itself, every later one adds a
\* space and itself.
RECURSIVE Assemble(_, _)
Assemble(acc, texts) ==
    IF texts = <<>> THEN acc
    ELSE LET t == Strip(Head(texts)) IN
         Assemble(IF t = <<>> THEN acc
                  ELSE IF acc = <<>> THEN t
                  ELSE acc \o <<" ">> \o t,
                  Tail(texts))

TextsOf(segs) == [i \in 1..Len(segs) |-> segs[i].text]

\* C4: the printed transcript is the trimmed texts of the segments the call
\* returned, in order, those that trim to empty left out, joined by one
\* space; it has no leading or trailing space, and is empty when every
\* segment trims to empty.
C4_TranscriptAssembly ==
    cpc = "printed" =>
        /\ Len(stdout) = 1
        /\ LET texts == TextsOf(Yielded(candidates)) IN
            /\ stdout[1] = Assemble(<<>>, texts)
            /\ NoEdgeWhitespace(stdout[1])
            /\ (\A i \in 1..Len(texts) : Strip(texts[i]) = <<>>)
                    => stdout[1] = <<>>

\* C4 witness: a segment that trims to empty came before a non-empty one, and
\* the printed transcript is the non-empty one alone
C4_Witness ==
    /\ cpc = "printed"
    /\ Len(text_parts) = 2
    /\ text_parts[1] = <<>>
    /\ text_parts[2] # <<>>
    /\ stdout = <<text_parts[2]>>

\* C5: when the run has failed, nothing was written to standard output, one
\* message was written to standard error and the exit status is not zero; and
\* whatever is on standard output was written after every segment had been
\* pulled without error.
C5_NoOutputOnFailure ==
    /\ cpc = "failed" =>
            /\ stdout = <<>>
            /\ Len(stderr) = 1
            /\ exit_status # 0
    /\ stdout # <<>> =>
            /\ cpc = "printed"
            /\ segments = <<>>
            /\ Len(text_parts) = Len(Yielded(candidates))
            /\ stderr = <<>>

\* C5 witness: the sequence raised after a non-empty segment had been pulled
C5_Witness ==
    /\ cpc = "failed"
    /\ text_parts # <<>>
    /\ text_parts[1] # <<>>
    /\ segments # <<>>

\* C9: the printed transcript is made of the candidates whose no-speech
\* probability does not exceed the threshold, and of no other.
C9_NoSpeechSegmentsDropped ==
    cpc = "printed" =>
        stdout[1] =
            Assemble(<<>>, TextsOf(SelectSeq(candidates,
                LAMBDA seg : ~(seg.no_speech_prob > no_speech_threshold))))

-----------------------------------------------------------------------------
(* Properties of load_vocab, checked under SpecVocab *)

\* The first whitespace-delimited field of a line (empty for a blank line)
RECURSIVE UpToWhitespace(_)
UpToWhitespace(s) ==
    IF s = <<>> \/ Head(s) \in Whitespace THEN <<>>
    ELSE <<Head(s)>> \o UpToWhitespace(Tail(s))

FirstField(s) == UpToWhitespace(LStrip(s))

\* C7: load_vocab returns one token per line, in line order: the single
\* space for a line that begins with a space, else the line's first
\* whitespace-delimited field.
C7_OneTokenPerLine ==
    vpc = "returned" =>
        /\ Len(vocab_list) = Len(lines)
        /\ \A i \in 1..Len(lines) :
            vocab_list[i] =
                IF lines[i] # <<>> /\ lines[i][1] = " "
                THEN <<" ">>
                ELSE FirstField(lines[i])

-----------------------------------------------------------------------------
(* Properties of the scripts' main(), checked under SpecPipeline *)

Min(a, b) == IF a < b THEN a ELSE b

\* C6: load_audio_ffmpeg returns no sample buffer when ffmpeg ended with a
\* non-zero status or wrote no PCM, and feature extraction is never entered
\* with an empty buffer it returned.
C6_LoadFailureIsError ==
    /\ ~(loader = "ffmpeg" /\ (ff_rc # 0 \/ ff_bytes = 0))
    /\ ~(loader = "ffmpeg" /\ audio = 0 /\ raised = "stft")

\* C8: on L samples the feature extractor of the GigaAM scripts returns a
\* tensor of shape [1, 64, n]: n = floor((L - 320) / 160) + 1 when L >= 320,
\* n = 0 when L < 320; it never fails.
C8_FrameCountOrEmpty ==
    script # "mel_compare" =>
        /\ raised # "stft"
        /\ ppc = "mel" =>
                mel[1].shape =
                    <<1, 64, IF audio >= 320 THEN (audio - 320) \div 160 + 1 ELSE 0>>

\* C10: the tensor given to the inference call was computed from the first
\* min(L, 400000) samples, feature_lengths is its frame count, and it has at
\* most 2499 frames.
C10_FreshFeatures ==
    ppc = "inferred" =>
        LET f == fed[1]
            n == Min(ff_bytes \div 2, 400000)
        IN  /\ f.features.from = n
            /\ f.features.shape = <<1, 64, (n - 320) \div 160 + 1>>
            /\ f.feature_lengths = f.features.shape[3]
            /\ f.feature_lengths <= 2499

\* C10 witness: audio longer than 25 s was truncated and 2499 frames were fed
C10_Witness ==
    /\ ppc = "inferred"
    /\ ff_bytes \div 2 > 400000
    /\ audio = 400000
    /\ fed[1].feature_lengths = 2499

====
